---- MODULE Spec2Model ----
(***************************************************************************)
(* A model of the key store (src/crypto/crypto_manager.py, CryptoManager)  *)
(* and of the orchestrator's lifecycle and maintenance loops               *)
(* (src/storage/storage.py, SecureStorage).                                *)
(*                                                                         *)
(* Spec      the key store: processes that load or create the master key   *)
(*           on one shared path, step by step, with crashes and faults.    *)
(* SpecLife  the orchestrator: start(), stop() and the two periodic tasks  *)
(*           on one asyncio event loop.                                    *)
(* FairLife  the orchestrator under a fair event loop, for progress.       *)
(* SpecConf  the construction of the orchestrator: the configuration, the  *)
(*           key store, the collaborators, and the first start().          *)
(*                                                                         *)
(* The file system is POSIX: os.rename replaces an existing destination    *)
(* atomically, and a directory needs the search bit to be entered.         *)
(***************************************************************************)
EXTENDS Naturals, Sequences, FiniteSets, TLC

(***************************************************************************)
(* Bounds of the model.                                                    *)
(***************************************************************************)
NumKeys == 2
MaxLoads == 2
MaxRestarts == 1
MaxStarts == 2
MaxStops == 2
MaxFairStarts == 1

(***************************************************************************)
(* Program constants.                                                      *)
(***************************************************************************)
KeyLen == 32
OwnerOnly == 384

VARIABLES
    keyFile,      \* the file at key_path
    tmpFile,      \* tmpFile[p]: the file at f"{key_path}.{pid}.tmp" of process p
    keyDir,       \* the directory os.path.dirname(self.master_key_path)
    privileged,   \* the processes run as a user who passes permission checks
    kpc,          \* kpc[p]: where process p is in _load_or_create_master_key
    logger,       \* logger[p]: the instance has its logger attribute (line 15)
    key,          \* key[p]: the local variable key
    master_key,   \* master_key[p]: the attribute self.master_key (line 13)
    exc,          \* exc[p]: the exception in flight or raised by the last call
    rets,         \* rets[p]: what the calls of p returned, in order
    wrote,        \* wrote[p]: the call in progress changed the file system
    created,      \* created[p]: the call in progress created tmpFile[p]
    missing,      \* missing[p]: the call in progress found no key file
    fault,        \* fault[p]: the environment failed an I/O call of this call
    loads,        \* loads[p]: calls made by the instance of p
    restarts,     \* restarts of crashed or failed processes so far
    committed,    \* the processes whose rename of a new key succeeded
    file0,        \* the key file as it was at the start
    running,      \* self.running
    life,         \* the lifecycle state the log lines of start() and stop() announce
    opc,          \* opc[c]: where caller c is in start() or stop()
    pre,          \* pre[c]: the lifecycle state when c made its call
    res,          \* res[c]: how the last call of c ended
    log,          \* log[c]: the collaborator calls the call of c has made, in order
    cstate,       \* cstate[k]: the last lifecycle call collaborator k completed
    tasks,        \* the tasks asyncio.create_task has made, in order
    stopped,      \* how many of the tasks a stop() has told to end
    starts,       \* calls of start() so far
    stops,        \* calls of stop() so far
    cfgFile,      \* the file at config_path
    cfgDir,       \* the directory os.path.dirname(config_path)
    spc,          \* where SecureStorage.__init__ is
    config,       \* self.config
    sexc,         \* the exception that left SecureStorage.__init__
    built,        \* the components __init__ has constructed
    cfg0          \* the configuration file as it was at the start

keyVars == <<keyFile, tmpFile, keyDir, privileged, kpc, logger, key, master_key,
             exc, rets, wrote, created, missing, fault, loads, restarts,
             committed, file0>>

lifeVars == <<running, life, opc, pre, res, log, cstate, tasks, stopped, starts,
              stops>>

confVars == <<cfgFile, cfgDir, spc, config, sexc, built, cfg0>>

vars == <<keyVars, lifeVars, confVars>>

\* Two processes share the key path.
Procs == {1, 2}
GenKeys == 1..NumKeys
OldKey == 0

NoFile == [exists |-> FALSE, key |-> 0, len |-> 0, mode |-> 0]
NoKey == [key |-> 0, len |-> 0]

File(k, n) == [exists |-> TRUE, key |-> k, len |-> n, mode |-> OwnerOnly]

\* What a short write or a crash in the middle of the write leaves in the file.
PartialLens == {0, KeyLen \div 2}

\* The lengths of a key file found on disk.
InitLens == {0, KeyLen \div 2, KeyLen, KeyLen + 1}

InitFiles == {NoFile} \cup {File(OldKey, n) : n \in InitLens}

\* A temp file that a process of the same pid left when it died in its write.
OrphanTemp == File(OldKey, KeyLen \div 2)

(***************************************************************************)
(* Whether a process can reach the entries of the key directory.  "none"   *)
(* is a master_key_path without a directory part: the key lies in the      *)
(* working directory.  "mode600" is the directory os.makedirs created with *)
(* mode=0o600: it has no search bit.                                       *)
(***************************************************************************)
CanEnter == keyDir \in {"none", "present"} \/ (keyDir = "mode600" /\ privileged)

\* if not key or len(key) != 32
KeyIsValid(k) == k.len # 0 /\ k.len = KeyLen

Active == {"read", "validate", "notfound", "gen", "mkdir", "open", "write",
           "rename", "return", "cleanup"}

KeyInit ==
    /\ keyFile \in InitFiles
    /\ keyDir \in {"none", "absent", "present"}
    /\ (keyDir = "absent" => keyFile = NoFile)
    /\ privileged \in BOOLEAN
    /\ tmpFile \in [Procs -> {NoFile, OrphanTemp}]
    /\ (keyDir # "present" => tmpFile = [p \in Procs |-> NoFile])
    /\ kpc = [p \in Procs |-> "idle"]
    \* logger[p] = TRUE: an instance constructed earlier, on a key that was valid
    /\ logger \in [Procs -> BOOLEAN]
    /\ key = [p \in Procs |-> NoKey]
    /\ master_key = [p \in Procs |->
                       IF logger[p] THEN [key |-> OldKey, len |-> KeyLen] ELSE NoKey]
    /\ exc = [p \in Procs |-> "none"]
    /\ rets = [p \in Procs |-> <<>>]
    /\ wrote = [p \in Procs |-> FALSE]
    /\ created = [p \in Procs |-> FALSE]
    /\ missing = [p \in Procs |-> FALSE]
    /\ fault = [p \in Procs |-> FALSE]
    /\ loads = [p \in Procs |-> 0]
    /\ restarts = 0
    /\ committed = {}
    /\ file0 = keyFile

(***************************************************************************)
(* The call returns k.  In __init__ (the logger attribute is not there     *)
(* yet) line 13 stores the result and line 15 sets the logger.             *)
(***************************************************************************)
Returned(p, k) ==
    /\ kpc' = [kpc EXCEPT ![p] = "done"]
    /\ rets' = [rets EXCEPT ![p] = Append(@, [key |-> k, wrote |-> wrote[p]])]
    /\ master_key' = IF logger[p] THEN master_key
                     ELSE [master_key EXCEPT ![p] = k]
    /\ logger' = [logger EXCEPT ![p] = TRUE]

\* The exception e leaves the call; in __init__ it leaves the constructor.
Raised(p, e) ==
    /\ kpc' = [kpc EXCEPT ![p] = "raised"]
    /\ exc' = [exc EXCEPT ![p] = e]

\* self.logger.<level>(...): AttributeError while the attribute is not set.
LoggerWorks(p) == logger[p]

\* CryptoManager(path), or a further call of the method on the instance.
Load(p) ==
    /\ kpc[p] \in {"idle", "done"}
    /\ loads[p] < MaxLoads
    /\ kpc' = [kpc EXCEPT ![p] = "read"]
    /\ loads' = [loads EXCEPT ![p] = @ + 1]
    /\ key' = [key EXCEPT ![p] = NoKey]
    /\ exc' = [exc EXCEPT ![p] = "none"]
    /\ wrote' = [wrote EXCEPT ![p] = FALSE]
    /\ created' = [created EXCEPT ![p] = FALSE]
    /\ missing' = [missing EXCEPT ![p] = FALSE]
    /\ fault' = [fault EXCEPT ![p] = FALSE]
    /\ UNCHANGED <<keyFile, tmpFile, keyDir, privileged, logger, master_key, rets,
                   restarts, committed, file0>>
    /\ UNCHANGED lifeVars
    /\ UNCHANGED confVars

\* A read that never finds the key file.
ReadNeverFinds(p) ==
    /\ kpc[p] = "read"
    /\ missing' = [missing EXCEPT ![p] = TRUE]
    /\ kpc' = [kpc EXCEPT ![p] = "notfound"]
    /\ UNCHANGED <<keyFile, tmpFile, keyDir, privileged, logger, master_key, rets,
                   wrote, created, fault, loads, restarts, committed, file0, exc, key>>
    /\ UNCHANGED lifeVars
    /\ UNCHANGED confVars

\* with open(key_path, 'rb') as f: key = f.read()
Read(p) ==
    /\ kpc[p] = "read"
    /\ \/ /\ keyDir = "mode600" /\ ~privileged      \* PermissionError
          /\ Raised(p, "OSError")
          /\ UNCHANGED <<key, missing>>
       \/ /\ CanEnter /\ keyFile.exists
          /\ key' = [key EXCEPT ![p] = [key |-> keyFile.key, len |-> keyFile.len]]
          /\ kpc' = [kpc EXCEPT ![p] = "validate"]
          /\ UNCHANGED <<exc, missing>>
       \/ /\ keyDir = "absent" \/ (CanEnter /\ ~keyFile.exists)
          /\ missing' = [missing EXCEPT ![p] = TRUE]  \* FileNotFoundError
          /\ kpc' = [kpc EXCEPT ![p] = "notfound"]
          /\ UNCHANGED <<exc, key>>
    /\ UNCHANGED <<keyFile, tmpFile, keyDir, privileged, logger, master_key, rets,
                   wrote, created, fault, loads, restarts, committed, file0>>
    /\ UNCHANGED lifeVars
    /\ UNCHANGED confVars

\* The read fails with an I/O error.
ReadError(p) ==
    /\ kpc[p] = "read"
    /\ Raised(p, "OSError")
    /\ fault' = [fault EXCEPT ![p] = TRUE]
    /\ UNCHANGED <<keyFile, tmpFile, keyDir, privileged, logger, key, master_key,
                   rets, wrote, created, missing, loads, restarts, committed, file0>>
    /\ UNCHANGED lifeVars
    /\ UNCHANGED confVars

\* The exception of an invalid key: the log call comes before the raise.
InvalidKeyError(p) == IF LoggerWorks(p) THEN "ValueError" ELSE "AttributeError"

\* Validate key integrity, return key.
Validate(p) ==
    /\ kpc[p] = "validate"
    /\ IF KeyIsValid(key[p])
       THEN Returned(p, key[p]) /\ UNCHANGED exc
       ELSE Raised(p, InvalidKeyError(p)) /\ UNCHANGED <<rets, master_key, logger>>
    /\ UNCHANGED <<keyFile, tmpFile, keyDir, privileged, key, wrote, created,
                   missing, fault, loads, restarts, committed, file0>>
    /\ UNCHANGED lifeVars
    /\ UNCHANGED confVars

\* except FileNotFoundError: self.logger.warning(...)
NotFound(p) ==
    /\ kpc[p] = "notfound"
    /\ IF LoggerWorks(p)
       THEN kpc' = [kpc EXCEPT ![p] = "gen"] /\ UNCHANGED exc
       ELSE Raised(p, "AttributeError")
    /\ UNCHANGED <<keyFile, tmpFile, keyDir, privileged, logger, key, master_key,
                   rets, wrote, created, missing, fault, loads, restarts, committed,
                   file0>>
    /\ UNCHANGED lifeVars
    /\ UNCHANGED confVars

\* key = secrets.token_bytes(32)
Gen(p) ==
    /\ kpc[p] = "gen"
    /\ \E k \in GenKeys : key' = [key EXCEPT ![p] = [key |-> k, len |-> KeyLen]]
    /\ kpc' = [kpc EXCEPT ![p] = "mkdir"]
    /\ UNCHANGED <<keyFile, tmpFile, keyDir, privileged, logger, master_key, exc,
                   rets, wrote, created, missing, fault, loads, restarts, committed,
                   file0>>
    /\ UNCHANGED lifeVars
    /\ UNCHANGED confVars

(***************************************************************************)
(* if not os.path.exists(key_dir): os.makedirs(key_dir, mode=0o600, ...)   *)
(* With no directory part key_dir is "", which does not exist and which    *)
(* makedirs cannot create: FileNotFoundError, logged and raised again.     *)
(***************************************************************************)
Mkdir(p) ==
    /\ kpc[p] = "mkdir"
    /\ \/ /\ keyDir = "none"
          /\ Raised(p, "OSError")
          /\ UNCHANGED <<keyDir, wrote>>
       \/ /\ keyDir = "absent"
          /\ keyDir' = "mode600"
          /\ wrote' = [wrote EXCEPT ![p] = TRUE]
          /\ kpc' = [kpc EXCEPT ![p] = "open"]
          /\ UNCHANGED exc
       \/ /\ keyDir \in {"present", "mode600"}
          /\ kpc' = [kpc EXCEPT ![p] = "open"]
          /\ UNCHANGED <<keyDir, wrote, exc>>
    /\ UNCHANGED <<keyFile, tmpFile, privileged, logger, key, master_key, rets,
                   created, missing, fault, loads, restarts, committed, file0>>
    /\ UNCHANGED lifeVars
    /\ UNCHANGED confVars

\* os.makedirs fails with an I/O error.
MkdirError(p) ==
    /\ kpc[p] = "mkdir"
    /\ keyDir = "absent"
    /\ Raised(p, "OSError")
    /\ fault' = [fault EXCEPT ![p] = TRUE]
    /\ UNCHANGED <<keyFile, tmpFile, keyDir, privileged, logger, key, master_key,
                   rets, wrote, created, missing, loads, restarts, committed, file0>>
    /\ UNCHANGED lifeVars
    /\ UNCHANGED confVars

\* fd = os.open(temp_path, os.O_WRONLY | os.O_CREAT | os.O_EXCL, 0o600)
Open(p) ==
    /\ kpc[p] = "open"
    /\ IF CanEnter /\ ~tmpFile[p].exists
       THEN /\ tmpFile' = [tmpFile EXCEPT ![p] = File(0, 0)]
            /\ created' = [created EXCEPT ![p] = TRUE]
            /\ wrote' = [wrote EXCEPT ![p] = TRUE]
            /\ kpc' = [kpc EXCEPT ![p] = "write"]
            /\ UNCHANGED exc
       ELSE /\ exc' = [exc EXCEPT ![p] = "OSError"]  \* PermissionError, FileExistsError
            /\ kpc' = [kpc EXCEPT ![p] = "cleanup"]
            /\ UNCHANGED <<tmpFile, created, wrote>>
    /\ UNCHANGED <<keyFile, keyDir, privileged, logger, key, master_key, rets,
                   missing, fault, loads, restarts, committed, file0>>
    /\ UNCHANGED lifeVars
    /\ UNCHANGED confVars

\* os.open fails with an I/O error.
OpenError(p) ==
    /\ kpc[p] = "open"
    /\ exc' = [exc EXCEPT ![p] = "OSError"]
    /\ kpc' = [kpc EXCEPT ![p] = "cleanup"]
    /\ fault' = [fault EXCEPT ![p] = TRUE]
    /\ UNCHANGED <<keyFile, tmpFile, keyDir, privileged, logger, key, master_key,
                   rets, wrote, created, missing, loads, restarts, committed, file0>>
    /\ UNCHANGED lifeVars
    /\ UNCHANGED confVars

\* with os.fdopen(fd, 'wb') as f: f.write(key)
Write(p) ==
    /\ kpc[p] = "write"
    /\ tmpFile' = [tmpFile EXCEPT ![p] = File(key[p].key, key[p].len)]
    /\ kpc' = [kpc EXCEPT ![p] = "rename"]
    /\ UNCHANGED <<keyFile, keyDir, privileged, logger, key, master_key, exc, rets,
                   wrote, created, missing, fault, loads, restarts, committed, file0>>
    /\ UNCHANGED lifeVars
    /\ UNCHANGED confVars

(***************************************************************************)
(* The write fails part way.  The with statement has closed the file, so   *)
(* os.close(fd) in the handler raises OSError; an OSError reaches the      *)
(* outer handler either way.                                               *)
(***************************************************************************)
WriteError(p) ==
    /\ kpc[p] = "write"
    /\ \E n \in PartialLens : tmpFile' = [tmpFile EXCEPT ![p] = File(key[p].key, n)]
    /\ exc' = [exc EXCEPT ![p] = "OSError"]
    /\ kpc' = [kpc EXCEPT ![p] = "cleanup"]
    /\ fault' = [fault EXCEPT ![p] = TRUE]
    /\ UNCHANGED <<keyFile, keyDir, privileged, logger, key, master_key, rets,
                   wrote, created, missing, loads, restarts, committed, file0>>
    /\ UNCHANGED lifeVars
    /\ UNCHANGED confVars

\* Rename as it would be inside the with block, before the file is flushed.
RenameUnflushed(p) ==
    /\ kpc[p] \in {"write", "rename"}
    /\ keyFile' = tmpFile[p]
    /\ tmpFile' = [tmpFile EXCEPT ![p] = NoFile]
    /\ committed' = committed \cup {p}
    /\ kpc' = [kpc EXCEPT ![p] = "return"]
    /\ UNCHANGED <<keyDir, privileged, logger, key, master_key, exc, rets, wrote,
                   created, missing, fault, loads, restarts, file0>>
    /\ UNCHANGED lifeVars
    /\ UNCHANGED confVars

\* os.rename(temp_path, key_path)
Rename(p) ==
    /\ kpc[p] = "rename"
    /\ keyFile' = tmpFile[p]
    /\ tmpFile' = [tmpFile EXCEPT ![p] = NoFile]
    /\ committed' = committed \cup {p}
    /\ kpc' = [kpc EXCEPT ![p] = "return"]
    /\ UNCHANGED <<keyDir, privileged, logger, key, master_key, exc, rets, wrote,
                   created, missing, fault, loads, restarts, file0>>
    /\ UNCHANGED lifeVars
    /\ UNCHANGED confVars

\* os.rename fails with an I/O error.
RenameError(p) ==
    /\ kpc[p] = "rename"
    /\ exc' = [exc EXCEPT ![p] = "OSError"]
    /\ kpc' = [kpc EXCEPT ![p] = "cleanup"]
    /\ fault' = [fault EXCEPT ![p] = TRUE]
    /\ UNCHANGED <<keyFile, tmpFile, keyDir, privileged, logger, key, master_key,
                   rets, wrote, created, missing, loads, restarts, committed, file0>>
    /\ UNCHANGED lifeVars
    /\ UNCHANGED confVars

\* self.logger.info(...); return key
Finish(p) ==
    /\ kpc[p] = "return"
    /\ Returned(p, key[p])
    /\ UNCHANGED <<keyFile, tmpFile, keyDir, privileged, key, exc, wrote, created,
                   missing, fault, loads, restarts, committed, file0>>
    /\ UNCHANGED lifeVars
    /\ UNCHANGED confVars

\* A handler that raises again and removes nothing.
CleanupKeepsTemp(p) ==
    /\ kpc[p] = "cleanup"
    /\ Raised(p, exc[p])
    /\ UNCHANGED <<keyFile, tmpFile, keyDir, privileged, logger, key, master_key,
                   rets, wrote, created, missing, fault, loads, restarts, committed,
                   file0>>
    /\ UNCHANGED lifeVars
    /\ UNCHANGED confVars

\* except OSError: if os.path.exists(temp_path): os.unlink(temp_path); raise
Cleanup(p) ==
    /\ kpc[p] = "cleanup"
    /\ tmpFile' = IF CanEnter /\ tmpFile[p].exists
                  THEN [tmpFile EXCEPT ![p] = NoFile]
                  ELSE tmpFile
    /\ Raised(p, exc[p])
    /\ UNCHANGED <<keyFile, keyDir, privileged, logger, key, master_key, rets,
                   wrote, created, missing, fault, loads, restarts, committed, file0>>
    /\ UNCHANGED lifeVars
    /\ UNCHANGED confVars

\* The process dies where it is; what it wrote so far stays.
Crash(p) ==
    /\ kpc[p] \in Active
    /\ kpc' = [kpc EXCEPT ![p] = "crashed"]
    /\ UNCHANGED <<keyFile, tmpFile, keyDir, privileged, logger, key, master_key,
                   exc, rets, wrote, created, missing, fault, loads, restarts,
                   committed, file0>>
    /\ UNCHANGED lifeVars
    /\ UNCHANGED confVars

\* The process dies in the middle of the write.
CrashInWrite(p) ==
    /\ kpc[p] = "write"
    /\ \E n \in PartialLens : tmpFile' = [tmpFile EXCEPT ![p] = File(key[p].key, n)]
    /\ kpc' = [kpc EXCEPT ![p] = "crashed"]
    /\ UNCHANGED <<keyFile, keyDir, privileged, logger, key, master_key, exc, rets,
                   wrote, created, missing, fault, loads, restarts, committed, file0>>
    /\ UNCHANGED lifeVars
    /\ UNCHANGED confVars

\* A new process takes the place, and the process identifier, of a dead one.
Restart(p) ==
    /\ kpc[p] \in {"crashed", "raised"}
    /\ restarts < MaxRestarts
    /\ restarts' = restarts + 1
    /\ kpc' = [kpc EXCEPT ![p] = "idle"]
    /\ logger' = [logger EXCEPT ![p] = FALSE]
    /\ key' = [key EXCEPT ![p] = NoKey]
    /\ master_key' = [master_key EXCEPT ![p] = NoKey]
    /\ exc' = [exc EXCEPT ![p] = "none"]
    /\ rets' = [rets EXCEPT ![p] = <<>>]
    /\ wrote' = [wrote EXCEPT ![p] = FALSE]
    /\ created' = [created EXCEPT ![p] = FALSE]
    /\ missing' = [missing EXCEPT ![p] = FALSE]
    /\ fault' = [fault EXCEPT ![p] = FALSE]
    /\ loads' = [loads EXCEPT ![p] = 0]
    /\ UNCHANGED <<keyFile, tmpFile, keyDir, privileged, committed, file0>>
    /\ UNCHANGED lifeVars
    /\ UNCHANGED confVars

KeyNext ==
    \E p \in Procs :
        \/ Load(p)
        \/ Read(p)
        \/ ReadError(p)
        \/ Validate(p)
        \/ NotFound(p)
        \/ Gen(p)
        \/ Mkdir(p)
        \/ MkdirError(p)
        \/ Open(p)
        \/ OpenError(p)
        \/ Write(p)
        \/ WriteError(p)
        \/ Rename(p)
        \/ RenameError(p)
        \/ Finish(p)
        \/ Cleanup(p)
        \/ Crash(p)
        \/ CrashInWrite(p)
        \/ Restart(p)

(***************************************************************************)
(* The orchestrator.  One event loop runs the callers of start() and       *)
(* stop() and the periodic tasks; a coroutine runs undisturbed from one    *)
(* await to the next, and a call of a collaborator is an await.            *)
(***************************************************************************)
\* The application awaits each call of start() and stop() before the next.
Callers == {"app"}

Collaborators == {"nm", "fm"}

TaskIds == 1..(2 * MaxStarts)

Task(kind) == [kind |-> kind, pc |-> "ready", failed |-> FALSE]

LifeInit ==
    /\ running = FALSE
    /\ life = "Stopped"
    /\ opc = [c \in Callers |-> "idle"]
    /\ pre = [c \in Callers |-> "Stopped"]
    /\ res = [c \in Callers |-> "none"]
    /\ log = [c \in Callers |-> <<>>]
    /\ cstate = [k \in Collaborators |-> "new"]
    /\ tasks = <<>>
    /\ stopped = 0
    /\ starts = 0
    /\ stops = 0

\* The call of c ends: it returns, or an exception leaves it.
Ends(c, how) ==
    /\ opc' = [opc EXCEPT ![c] = "idle"]
    /\ res' = [res EXCEPT ![c] = how]

\* start(): logger.info, self.running = True, node_manager.initialize() begins
StartBegin(c) ==
    /\ opc[c] = "idle"
    /\ starts < MaxStarts
    /\ starts' = starts + 1
    /\ life' = "Starting"
    /\ running' = TRUE
    /\ opc' = [opc EXCEPT ![c] = "init_nm"]
    /\ pre' = [pre EXCEPT ![c] = life]
    /\ res' = [res EXCEPT ![c] = "none"]
    /\ log' = [log EXCEPT ![c] = <<"nm.initialize">>]
    /\ UNCHANGED <<cstate, tasks, stopped, stops>>
    /\ UNCHANGED keyVars
    /\ UNCHANGED confVars

\* node_manager.initialize() returns; file_manager.initialize() begins
NmInitDone(c) ==
    /\ opc[c] = "init_nm"
    /\ cstate' = [cstate EXCEPT !["nm"] = "initialized"]
    /\ opc' = [opc EXCEPT ![c] = "init_fm"]
    /\ log' = [log EXCEPT ![c] = Append(@, "fm.initialize")]
    /\ UNCHANGED <<running, life, pre, res, tasks, stopped, starts, stops>>
    /\ UNCHANGED keyVars
    /\ UNCHANGED confVars

\* node_manager.initialize() raises and start() goes on all the same
NmInitFailIgnored(c) ==
    /\ opc[c] = "init_nm"
    /\ opc' = [opc EXCEPT ![c] = "init_fm"]
    /\ log' = [log EXCEPT ![c] = Append(@, "fm.initialize")]
    /\ UNCHANGED <<running, life, pre, res, cstate, tasks, stopped, starts, stops>>
    /\ UNCHANGED keyVars
    /\ UNCHANGED confVars

\* node_manager.initialize() raises
NmInitFail(c) ==
    /\ opc[c] = "init_nm"
    /\ Ends(c, "raised")
    /\ UNCHANGED <<running, life, pre, log, cstate, tasks, stopped, starts, stops>>
    /\ UNCHANGED keyVars
    /\ UNCHANGED confVars

\* file_manager.initialize() returns; the two tasks are created; logger.info
FmInitDone(c) ==
    /\ opc[c] = "init_fm"
    /\ cstate' = [cstate EXCEPT !["fm"] = "initialized"]
    /\ tasks' = tasks \o <<Task("health"), Task("rebalance")>>
    /\ life' = "Running"
    /\ Ends(c, "returned")
    /\ UNCHANGED <<running, pre, log, stopped, starts, stops>>
    /\ UNCHANGED keyVars
    /\ UNCHANGED confVars

\* file_manager.initialize() raises
FmInitFail(c) ==
    /\ opc[c] = "init_fm"
    /\ Ends(c, "raised")
    /\ UNCHANGED <<running, life, pre, log, cstate, tasks, stopped, starts, stops>>
    /\ UNCHANGED keyVars
    /\ UNCHANGED confVars

\* A stop() that begins the shutdown calls with the flag still set.
StopBeginFlagLate(c) ==
    /\ opc[c] = "idle"
    /\ stops < MaxStops
    /\ stops' = stops + 1
    /\ life' = "Stopping"
    /\ opc' = [opc EXCEPT ![c] = "shut_nm"]
    /\ pre' = [pre EXCEPT ![c] = life]
    /\ res' = [res EXCEPT ![c] = "none"]
    /\ log' = [log EXCEPT ![c] = <<"nm.shutdown">>]
    /\ stopped' = Len(tasks)
    /\ UNCHANGED <<running, cstate, tasks, starts>>
    /\ UNCHANGED keyVars
    /\ UNCHANGED confVars

\* stop(): logger.info, self.running = False, node_manager.shutdown() begins
StopBegin(c) ==
    /\ opc[c] = "idle"
    /\ stops < MaxStops
    /\ stops' = stops + 1
    /\ life' = "Stopping"
    /\ running' = FALSE
    /\ opc' = [opc EXCEPT ![c] = "shut_nm"]
    /\ pre' = [pre EXCEPT ![c] = life]
    /\ res' = [res EXCEPT ![c] = "none"]
    /\ log' = [log EXCEPT ![c] = <<"nm.shutdown">>]
    /\ stopped' = Len(tasks)
    /\ UNCHANGED <<cstate, tasks, starts>>
    /\ UNCHANGED keyVars
    /\ UNCHANGED confVars

\* node_manager.shutdown() returns; file_manager.shutdown() begins
NmShutDone(c) ==
    /\ opc[c] = "shut_nm"
    /\ cstate' = [cstate EXCEPT !["nm"] = "shutdown"]
    /\ opc' = [opc EXCEPT ![c] = "shut_fm"]
    /\ log' = [log EXCEPT ![c] = Append(@, "fm.shutdown")]
    /\ UNCHANGED <<running, life, pre, res, tasks, stopped, starts, stops>>
    /\ UNCHANGED keyVars
    /\ UNCHANGED confVars

\* node_manager.shutdown() raises
NmShutFail(c) ==
    /\ opc[c] = "shut_nm"
    /\ Ends(c, "raised")
    /\ UNCHANGED <<running, life, pre, log, cstate, tasks, stopped, starts, stops>>
    /\ UNCHANGED keyVars
    /\ UNCHANGED confVars

\* file_manager.shutdown() returns; logger.info
FmShutDone(c) ==
    /\ opc[c] = "shut_fm"
    /\ cstate' = [cstate EXCEPT !["fm"] = "shutdown"]
    /\ life' = "Stopped"
    /\ Ends(c, "returned")
    /\ UNCHANGED <<running, pre, log, tasks, stopped, starts, stops>>
    /\ UNCHANGED keyVars
    /\ UNCHANGED confVars

\* file_manager.shutdown() raises
FmShutFail(c) ==
    /\ opc[c] = "shut_fm"
    /\ Ends(c, "raised")
    /\ UNCHANGED <<running, life, pre, log, cstate, tasks, stopped, starts, stops>>
    /\ UNCHANGED keyVars
    /\ UNCHANGED confVars

\* A loop that does not test the flag: while True.
TaskStepForever(t) ==
    /\ t \in DOMAIN tasks
    /\ tasks[t].pc \in {"ready", "sleeping"}
    /\ tasks' = [tasks EXCEPT ![t].pc = "calling", ![t].failed = FALSE]
    /\ UNCHANGED <<running, life, opc, pre, res, log, cstate, stopped, starts, stops>>
    /\ UNCHANGED keyVars
    /\ UNCHANGED confVars

(***************************************************************************)
(* while self.running: the task runs for the first time, or its sleep has  *)
(* ended; it tests the flag and begins the call of its collaborator, or    *)
(* leaves the loop.                                                        *)
(***************************************************************************)
TaskStep(t) ==
    /\ t \in DOMAIN tasks
    /\ tasks[t].pc \in {"ready", "sleeping"}
    /\ tasks' = [tasks EXCEPT ![t].pc = IF running THEN "calling" ELSE "done",
                               ![t].failed = FALSE]
    /\ UNCHANGED <<running, life, opc, pre, res, log, cstate, stopped, starts, stops>>
    /\ UNCHANGED keyVars
    /\ UNCHANGED confVars

\* The call returns; await asyncio.sleep(...) begins.
CallDone(t) ==
    /\ t \in DOMAIN tasks
    /\ tasks[t].pc = "calling"
    /\ tasks' = [tasks EXCEPT ![t].pc = "sleeping", ![t].failed = FALSE]
    /\ UNCHANGED <<running, life, opc, pre, res, log, cstate, stopped, starts, stops>>
    /\ UNCHANGED keyVars
    /\ UNCHANGED confVars

\* The call raises, and nothing catches it: the task ends.
CallFailUncaught(t) ==
    /\ t \in DOMAIN tasks
    /\ tasks[t].pc = "calling"
    /\ tasks' = [tasks EXCEPT ![t].pc = "done", ![t].failed = TRUE]
    /\ UNCHANGED <<running, life, opc, pre, res, log, cstate, stopped, starts, stops>>
    /\ UNCHANGED keyVars
    /\ UNCHANGED confVars

\* except Exception: logger.error(...); await asyncio.sleep(...) begins.
CallFail(t) ==
    /\ t \in DOMAIN tasks
    /\ tasks[t].pc = "calling"
    /\ tasks' = [tasks EXCEPT ![t].pc = "sleeping", ![t].failed = TRUE]
    /\ UNCHANGED <<running, life, opc, pre, res, log, cstate, stopped, starts, stops>>
    /\ UNCHANGED keyVars
    /\ UNCHANGED confVars

LifeNext ==
    \/ \E c \in Callers :
        \/ StartBegin(c)
        \/ NmInitDone(c)
        \/ NmInitFail(c)
        \/ FmInitDone(c)
        \/ FmInitFail(c)
        \/ StopBegin(c)
        \/ NmShutDone(c)
        \/ NmShutFail(c)
        \/ FmShutDone(c)
        \/ FmShutFail(c)
    \/ \E t \in TaskIds :
        \/ TaskStep(t)
        \/ CallDone(t)
        \/ CallFail(t)

(***************************************************************************)
(* The construction of the orchestrator: SecureStorage.__init__ and        *)
(* _load_config.  A configuration is a dict; the file holds its JSON text. *)
(***************************************************************************)
DefaultReplication == 3
DefaultChunkSize == 4194304

\* required_fields, in the order the loop tests them
RequiredFields == <<"master_key_path", "nodes_db_path", "local_storage_path",
                    "replication_factor", "use_tor">>

Required == {RequiredFields[i] : i \in DOMAIN RequiredFields}

AllFields == Required \cup {"chunk_size"}

default_config ==
    [master_key_path |-> "master.key", nodes_db_path |-> "nodes.db",
     local_storage_path |-> "local_storage",
     replication_factor |-> DefaultReplication, use_tor |-> TRUE,
     chunk_size |-> DefaultChunkSize]

\* The values of a configuration an operator wrote.
UserConfig ==
    [master_key_path |-> "keys/master.key", nodes_db_path |-> "var/nodes.db",
     local_storage_path |-> "var/storage",
     replication_factor |-> DefaultReplication + 2, use_tor |-> FALSE,
     chunk_size |-> DefaultChunkSize]

\* The dicts a configuration file of an operator may hold.
UserConfigs == {[f \in S |-> UserConfig[f]] : S \in SUBSET AllFields}

\* self.config before line 15 has assigned it
NoConfig == [unset |-> TRUE]

NoExc == [type |-> "none", arg |-> ""]

\* json.dump(obj, f): the JSON text of obj
JsonDump(obj) == [json |-> obj]

\* The object that a JSON text denotes.
JsonParse(text) == text.json

NoCfgFile == [exists |-> FALSE, text |-> JsonDump(NoConfig)]

CfgFile(obj) == [exists |-> TRUE, text |-> JsonDump(obj)]

\* open(config_path, 'r'): a text file object, not a str
FileObject(file) == [type |-> "TextIOWrapper", text |-> file.text]

\* json.loads(s): TypeError unless s is a str, bytes or bytearray
JsonLoads(s) ==
    IF s.type \in {"str", "bytes", "bytearray"}
    THEN [ok |-> TRUE, obj |-> JsonParse(s.text)]
    ELSE [ok |-> FALSE, obj |-> NoConfig]

\* for field in required_fields: if field not in config
MissingAt(obj) == {i \in DOMAIN RequiredFields : RequiredFields[i] \notin DOMAIN obj}

FirstMissing(obj) ==
    RequiredFields[CHOOSE i \in MissingAt(obj) : \A j \in MissingAt(obj) : i <= j]

\* The process that constructs the orchestrator.
Main == 1

ConfInit ==
    /\ cfgDir \in {"none", "absent", "present"}
    /\ cfgFile \in {NoCfgFile} \cup {CfgFile(obj) : obj \in UserConfigs}
    /\ (cfgDir = "absent" => cfgFile = NoCfgFile)
    /\ spc = "load"
    /\ config = NoConfig
    /\ sexc = NoExc
    /\ built = {}
    /\ cfg0 = cfgFile

\* The constructor is not part of the run.
ConfIdle ==
    /\ cfgDir = "none"
    /\ cfgFile = NoCfgFile
    /\ spc = "idle"
    /\ config = NoConfig
    /\ sexc = NoExc
    /\ built = {}
    /\ cfg0 = NoCfgFile

\* No key store call has been made.
KeyIdle ==
    /\ keyFile = NoFile
    /\ keyDir = "present"
    /\ privileged = FALSE
    /\ tmpFile = [p \in Procs |-> NoFile]
    /\ kpc = [p \in Procs |-> "idle"]
    /\ logger = [p \in Procs |-> FALSE]
    /\ key = [p \in Procs |-> NoKey]
    /\ master_key = [p \in Procs |-> NoKey]
    /\ exc = [p \in Procs |-> "none"]
    /\ rets = [p \in Procs |-> <<>>]
    /\ wrote = [p \in Procs |-> FALSE]
    /\ created = [p \in Procs |-> FALSE]
    /\ missing = [p \in Procs |-> FALSE]
    /\ fault = [p \in Procs |-> FALSE]
    /\ loads = [p \in Procs |-> 0]
    /\ restarts = 0
    /\ committed = {}
    /\ file0 = NoFile

Init == KeyInit /\ LifeInit /\ ConfIdle

Next == KeyNext

Spec == Init /\ [][Next]_vars

InitLife == KeyIdle /\ LifeInit /\ ConfIdle

NextLife == LifeNext

SpecLife == InitLife /\ [][NextLife]_vars

(***************************************************************************)
(* The orchestrator under a fair scheduler: the event loop runs every task *)
(* that is ready, every timer ends, and every call of a collaborator       *)
(* returns or raises.  Progress is checked over runs with up to            *)
(* MaxFairStarts calls of start().                                         *)
(***************************************************************************)
NextFair ==
    \/ \E c \in Callers :
        \/ starts < MaxFairStarts /\ StartBegin(c)
        \/ NmInitDone(c)
        \/ NmInitFail(c)
        \/ FmInitDone(c)
        \/ FmInitFail(c)
        \/ StopBegin(c)
        \/ NmShutDone(c)
        \/ NmShutFail(c)
        \/ FmShutDone(c)
        \/ FmShutFail(c)
    \/ \E t \in TaskIds :
        \/ TaskStep(t)
        \/ CallDone(t)
        \/ CallFail(t)

FairLife ==
    /\ InitLife
    /\ [][NextFair]_vars
    /\ \A t \in TaskIds : WF_vars(TaskStep(t))
    /\ \A t \in TaskIds : WF_vars(CallDone(t) \/ CallFail(t))

(***************************************************************************)
(* The steps of SecureStorage.__init__.                                    *)
(***************************************************************************)
\* The exception leaves __init__: the caller gets no orchestrator.
ConfRaise(type, arg) ==
    /\ spc' = "raised"
    /\ sexc' = [type |-> type, arg |-> arg]

\* with open(config_path, 'r') as f (line 32); FileNotFoundError is caught
OpenConfig ==
    /\ spc = "load"
    /\ spc' = IF cfgFile.exists THEN "parse" ELSE "default"
    /\ UNCHANGED <<cfgFile, cfgDir, config, sexc, built, cfg0>>
    /\ UNCHANGED keyVars
    /\ UNCHANGED lifeVars

\* config = json.loads(f), the test of the required fields, return config
ParseConfig ==
    /\ spc = "parse"
    /\ LET r == JsonLoads(FileObject(cfgFile)) IN
         IF ~r.ok
         THEN ConfRaise("TypeError", "") /\ UNCHANGED config
         ELSE IF MissingAt(r.obj) # {}
              THEN ConfRaise("ValueError", FirstMissing(r.obj)) /\ UNCHANGED config
              ELSE /\ config' = r.obj
                   /\ spc' = "logger"
                   /\ UNCHANGED sexc
    /\ UNCHANGED <<cfgFile, cfgDir, built, cfg0>>
    /\ UNCHANGED keyVars
    /\ UNCHANGED lifeVars

\* os.makedirs(os.path.dirname(config_path), exist_ok=True): the directory
\* name of a bare file name is '', and makedirs('') is a FileNotFoundError
MakeConfigDir ==
    /\ spc = "default"
    /\ IF cfgDir = "none"
       THEN ConfRaise("FileNotFoundError", "") /\ UNCHANGED cfgDir
       ELSE /\ cfgDir' = "present"
            /\ spc' = "write"
            /\ UNCHANGED sexc
    /\ UNCHANGED <<cfgFile, config, built, cfg0>>
    /\ UNCHANGED keyVars
    /\ UNCHANGED lifeVars

\* json.dump(default_config, f, indent=2); return default_config
WriteDefault ==
    /\ spc = "write"
    /\ cfgFile' = CfgFile(default_config)
    /\ config' = default_config
    /\ spc' = "logger"
    /\ UNCHANGED <<cfgDir, sexc, built, cfg0>>
    /\ UNCHANGED keyVars
    /\ UNCHANGED lifeVars

\* self.logger = setup_logger(...)
SetupLogger ==
    /\ spc = "logger"
    /\ spc' = "crypto"
    /\ UNCHANGED <<cfgFile, cfgDir, config, sexc, built, cfg0>>
    /\ UNCHANGED keyVars
    /\ UNCHANGED lifeVars

\* CryptoManager(self.config['master_key_path']) begins
CryptoBegin ==
    /\ spc = "crypto"
    /\ kpc[Main] = "idle"
    /\ Load(Main)

\* CryptoManager(...) returns: self.crypto_manager is set
CryptoDone ==
    /\ spc = "crypto"
    /\ kpc[Main] = "done"
    /\ built' = built \cup {"crypto"}
    /\ spc' = "node"
    /\ UNCHANGED <<cfgFile, cfgDir, config, sexc, cfg0>>
    /\ UNCHANGED keyVars
    /\ UNCHANGED lifeVars

\* An exception of CryptoManager(...) that the constructor swallows.
CryptoRaiseSwallowed ==
    /\ spc = "crypto"
    /\ kpc[Main] = "raised"
    /\ spc' = "node"
    /\ UNCHANGED <<cfgFile, cfgDir, config, sexc, built, cfg0>>
    /\ UNCHANGED keyVars
    /\ UNCHANGED lifeVars

\* CryptoManager(...) raises: nothing catches it in __init__
CryptoRaise ==
    /\ spc = "crypto"
    /\ kpc[Main] = "raised"
    /\ ConfRaise(exc[Main], "")
    /\ UNCHANGED <<cfgFile, cfgDir, config, built, cfg0>>
    /\ UNCHANGED keyVars
    /\ UNCHANGED lifeVars

\* self.node_manager = NodeManager(...)
BuildNode ==
    /\ spc = "node"
    /\ built' = built \cup {"nm"}
    /\ spc' = "file"
    /\ UNCHANGED <<cfgFile, cfgDir, config, sexc, cfg0>>
    /\ UNCHANGED keyVars
    /\ UNCHANGED lifeVars

\* self.file_manager = FileManager(...); self.running = False
BuildFile ==
    /\ spc = "file"
    /\ built' = built \cup {"fm"}
    /\ spc' = "done"
    /\ running' = FALSE
    /\ UNCHANGED <<life, opc, pre, res, log, cstate, tasks, stopped, starts, stops>>
    /\ UNCHANGED <<cfgFile, cfgDir, config, sexc, cfg0>>
    /\ UNCHANGED keyVars

\* start() on the orchestrator the constructor returned
ConfStart(c) ==
    /\ spc = "done"
    /\ StartBegin(c)

(***************************************************************************)
(* A new process constructs the orchestrator.  Its key store has no logger *)
(* attribute until line 15 of CryptoManager.__init__, and the key path of  *)
(* the default configuration, the only one that reaches line 17, is a bare *)
(* file name.  The steps of the key store and of start() are those of Spec *)
(* and SpecLife.                                                           *)
(***************************************************************************)
InitConf ==
    /\ KeyInit
    /\ keyDir = "none"
    /\ logger = [p \in Procs |-> FALSE]
    /\ LifeInit
    /\ ConfInit

NextConf ==
    \/ OpenConfig
    \/ ParseConfig
    \/ MakeConfigDir
    \/ WriteDefault
    \/ SetupLogger
    \/ CryptoBegin
    \/ Read(Main)
    \/ ReadError(Main)
    \/ Validate(Main)
    \/ NotFound(Main)
    \/ CryptoDone
    \/ CryptoRaise
    \/ BuildNode
    \/ BuildFile
    \/ \E c \in Callers :
        \/ ConfStart(c)
        \/ NmInitDone(c)
        \/ NmInitFail(c)
        \/ FmInitDone(c)
        \/ FmInitFail(c)

SpecConf == InitConf /\ [][NextConf]_vars

(***************************************************************************)
(* Claims about the key store, checked under Spec.                         *)
(***************************************************************************)
Last(s) == s[Len(s)]

IsFullKey(f) == f.exists /\ f.len = KeyLen

\* A call of p that has ended, with no I/O fault from the environment.
Ended(p) == kpc[p] \in {"done", "raised"} /\ ~fault[p]

(***************************************************************************)
(* C1: at every step of the creation of a master key, crashes included,    *)
(* the final path is absent or holds a complete 32-byte key, and until a   *)
(* rename has succeeded the final path is as it was at the start: all that *)
(* creation leaves behind before the rename is the temp file.              *)
(***************************************************************************)
C1_CrashSafeCreate ==
    /\ (\E p \in Procs : missing[p]) => (~keyFile.exists \/ IsFullKey(keyFile))
    /\ committed = {} => keyFile = file0
    /\ committed # {} => IsFullKey(keyFile)

\* A process crashed before its rename: a partial temp file, no key file.
C1_Witness ==
    \E p \in Procs :
        /\ kpc[p] = "crashed" /\ missing[p] /\ created[p]
        /\ tmpFile[p].exists /\ tmpFile[p].len < KeyLen
        /\ ~keyFile.exists

(***************************************************************************)
(* C2: when the key file exists with a length other than 32, the load      *)
(* fails with ValueError, no key is generated and the file is unchanged.   *)
(***************************************************************************)
C2_CorruptKeyRaisesValueError ==
    \A p \in Procs :
        (file0.exists /\ file0.len # KeyLen /\ Ended(p)) =>
            /\ kpc[p] = "raised" /\ exc[p] = "ValueError"
            /\ keyFile = file0 /\ committed = {}

(***************************************************************************)
(* C3: when no key file exists, the load succeeds, the final path holds    *)
(* exactly 32 bytes with owner-only permissions, and the call returns the  *)
(* bytes stored there.                                                     *)
(***************************************************************************)
C3_CreateSucceeds ==
    \A p \in Procs :
        (missing[p] /\ Ended(p)) =>
            /\ kpc[p] = "done"
            /\ IsFullKey(keyFile) /\ keyFile.mode = OwnerOnly
            /\ Last(rets[p]).key = [key |-> keyFile.key, len |-> keyFile.len]

(***************************************************************************)
(* C4: of two processes racing to create the key at most one commits its   *)
(* key, and no process holds a key other than the one at the final path.   *)
(***************************************************************************)
C4_SingleWinner ==
    /\ Cardinality(committed) <= 1
    /\ \A p \in Procs :
           (kpc[p] = "done" /\ keyFile.exists) => Last(rets[p]).key.key = keyFile.key

(***************************************************************************)
(* C5: while no other process replaces the key file, every further load of *)
(* a process returns the key its previous load returned, whether that load *)
(* created the key or found it, and writes nothing.                        *)
(***************************************************************************)
C5_IdempotentLoad ==
    \A p \in Procs :
        committed \subseteq {p} =>
            \A i \in 2..Len(rets[p]) :
                /\ rets[p][i].key = rets[p][i - 1].key
                /\ ~rets[p][i].wrote

\* A process loaded twice, and its first load created the key.
C5_Witness ==
    \E p \in Procs :
        /\ Len(rets[p]) = 2 /\ rets[p][1].wrote /\ ~rets[p][2].wrote
        /\ committed = {p}

(***************************************************************************)
(* Claims about the orchestrator, checked under SpecLife and FairLife.     *)
(***************************************************************************)
InStart(c) == opc[c] \in {"init_nm", "init_fm"}

InStop(c) == opc[c] \in {"shut_nm", "shut_fm"}

WasStart(c) == log[c] # <<>> /\ log[c][1] = "nm.initialize"

(***************************************************************************)
(* C6: start() on a Running system calls initialize() on no collaborator   *)
(* and schedules nothing, and stop() on a Stopped system calls shutdown()  *)
(* on no collaborator.                                                     *)
(***************************************************************************)
C6_NoRepeatedStartOrStop ==
    \A c \in Callers :
        /\ ~(pre[c] = "Running" /\ InStart(c))
        /\ ~(pre[c] = "Stopped" /\ InStop(c))

(***************************************************************************)
(* C7: when initialize() of a collaborator fails in start(), the call      *)
(* raises, the running flag is not set and the system is not Running.      *)
(***************************************************************************)
C7_FailedStartNotRunning ==
    \A c \in Callers :
        (WasStart(c) /\ opc[c] = "idle" /\ res[c] = "raised") =>
            (~running /\ life # "Running")

(***************************************************************************)
(* C8: no shutdown() of a collaborator is in progress while a health-check *)
(* or rebalance call is in progress.                                       *)
(***************************************************************************)
C8_ShutdownAfterIterations ==
    \A c \in Callers :
        InStop(c) => \A t \in DOMAIN tasks : tasks[t].pc # "calling"

(***************************************************************************)
(* C9: stop() calls shutdown() on the file manager first and on the node   *)
(* directory second.                                                       *)
(***************************************************************************)
C9_ReverseShutdownOrder ==
    \A c \in Callers :
        (log[c] # <<>> /\ ~WasStart(c)) =>
            /\ log[c][1] = "fm.shutdown"
            /\ Len(log[c]) > 1 => log[c][2] = "nm.shutdown"

(***************************************************************************)
(* C10: a health-check or rebalance call that raises does not end its      *)
(* loop: the task goes on to its sleep, the other tasks are untouched, and *)
(* while the system stays running the task makes its next call.            *)
(***************************************************************************)
C10_LoopSurvivesError ==
    /\ \A t \in TaskIds :
           (t \in DOMAIN tasks /\ tasks[t].failed)
               ~> ((t \in DOMAIN tasks /\ tasks[t].pc = "calling") \/ ~running)
    /\ [][\A t \in DOMAIN tasks :
             (tasks[t].pc = "calling" /\ tasks'[t].pc # "calling") =>
                 /\ tasks'[t].pc = "sleeping"
                 /\ \A u \in DOMAIN tasks \ {t} : tasks'[u] = tasks[u]]_vars

\* A call has raised, and its task sleeps until the next one.
C10_Witness ==
    \E t \in DOMAIN tasks :
        tasks[t].failed /\ tasks[t].pc = "sleeping" /\ running

(***************************************************************************)
(* C11: start() calls initialize() on the node directory first and on the  *)
(* file manager second: the file manager's initialize() begins only when   *)
(* the node directory's initialize() has returned, and not at all when it  *)
(* raised.                                                                 *)
(***************************************************************************)
C11_InitializeOrder ==
    \A c \in Callers :
        WasStart(c) =>
            /\ opc[c] = "init_nm" => log[c] = <<"nm.initialize">>
            /\ Len(log[c]) > 1 =>
                   /\ log[c] = <<"nm.initialize", "fm.initialize">>
                   /\ cstate["nm"] = "initialized"

\* initialize() of the file manager is in progress.
C11_Witness ==
    \E c \in Callers : opc[c] = "init_fm" /\ cstate["nm"] = "initialized"

(***************************************************************************)
(* Claims about the construction of the orchestrator, checked under        *)
(* SpecConf.                                                               *)
(***************************************************************************)
\* _load_config has ended: it returned a configuration, or it raised.
ConfigLoaded == config # NoConfig

ConfigFailed == spc = "raised" /\ config = NoConfig

(***************************************************************************)
(* C12: when the construction of the key store raises, the exception       *)
(* leaves the constructor of the orchestrator, no collaborator is          *)
(* constructed or initialized, and no start() is made on the orchestrator. *)
(***************************************************************************)
C12_KeyStoreFailureStopsConstruction ==
    kpc[Main] = "raised" =>
        /\ spc \in {"crypto", "raised"}
        /\ spc = "raised" => sexc = [type |-> exc[Main], arg |-> ""]
        /\ built = {}
        /\ \A k \in Collaborators : cstate[k] = "new"
        /\ starts = 0
        /\ \A c \in Callers : opc[c] = "idle"

\* The key store raised, and its exception has left the constructor.
C12_Witness ==
    /\ kpc[Main] = "raised"
    /\ spc = "raised"
    /\ sexc.type = exc[Main]
    /\ ConfigLoaded

(***************************************************************************)
(* C13: loading a configuration file that exists but lacks a required      *)
(* field raises the ValueError that names the first missing field and      *)
(* leaves the file as it was; loading a file that has every required field *)
(* returns the values of the file.                                         *)
(***************************************************************************)
C13_ExistingConfig ==
    (cfg0.exists /\ (ConfigLoaded \/ ConfigFailed)) =>
        LET obj == JsonParse(cfg0.text) IN
            IF MissingAt(obj) = {}
            THEN ConfigLoaded /\ config = obj
            ELSE /\ ConfigFailed
                 /\ sexc = [type |-> "ValueError", arg |-> FirstMissing(obj)]
                 /\ cfgFile = cfg0

(***************************************************************************)
(* C14: loading the configuration from a path with no file, a bare file    *)
(* name included, writes the default configuration with every required     *)
(* field to that path and returns the values it wrote: replication factor  *)
(* 3 and use_tor true.                                                     *)
(***************************************************************************)
C14_DefaultConfig ==
    (~cfg0.exists /\ (ConfigLoaded \/ ConfigFailed)) =>
        /\ ConfigLoaded
        /\ cfgFile.exists
        /\ Required \subseteq DOMAIN JsonParse(cfgFile.text)
        /\ config = JsonParse(cfgFile.text)
        /\ config.replication_factor = DefaultReplication
        /\ config.use_tor = TRUE

(***************************************************************************)
(* C15: a task begins a health-check or rebalance call only while the      *)
(* system is Running: both initialize() calls of the latest start() have   *)
(* returned, no stop() has begun since, and no collaborator is shut down.  *)
(***************************************************************************)
C15_CallsOnlyWhileRunning ==
    [][\A t \in DOMAIN tasks :
          (tasks[t].pc # "calling" /\ tasks'[t].pc = "calling") =>
              /\ life = "Running"
              /\ \A k \in Collaborators : cstate[k] = "initialized"]_vars

(***************************************************************************)
(* Further claims about the key store, checked under Spec.                 *)
(***************************************************************************)
\* The handler of p is about to run for a failed os.open or a failed write:
\* the temp file is not the work of this call, or it is short.
FailedCreateOrWrite(p) ==
    /\ kpc[p] = "cleanup"
    /\ ~created[p] \/ tmpFile[p].len < KeyLen

(***************************************************************************)
(* C16: when the exclusive creation of the temp file or the write to it    *)
(* fails, the OSError reaches the caller, and afterwards no file is left   *)
(* at the temp path of the call, be it the file the call created or one an *)
(* earlier process of the same pid left there, and the call has not        *)
(* touched the final path.                                                 *)
(***************************************************************************)
C16_FailedCreateCleansUp ==
    [][\A p \in Procs :
          (FailedCreateOrWrite(p) /\ kpc'[p] = "raised") =>
              /\ exc'[p] = "OSError"
              /\ ~tmpFile'[p].exists
              /\ keyFile' = keyFile
              /\ p \notin committed']_vars

\* os.open found a temp file of an earlier process in its way (no fault of
\* the environment, a directory that can be entered); the handler removed it.
C16_Witness ==
    \E p \in Procs :
        /\ kpc[p] = "raised" /\ exc[p] = "OSError"
        /\ missing[p] /\ ~created[p] /\ ~fault[p]
        /\ keyDir = "present"
        /\ ~tmpFile[p].exists

(***************************************************************************)
(* C16 as stated: after such a failure no temp file this call wrote is     *)
(* left, no file exists at the final path, and a temp file this call did   *)
(* not create is not deleted.                                              *)
(***************************************************************************)
C16_FailedCreateLeavesNoTrace ==
    [][\A p \in Procs :
          (FailedCreateOrWrite(p) /\ kpc'[p] = "raised") =>
              /\ exc'[p] = "OSError"
              /\ created[p] => ~tmpFile'[p].exists
              /\ ~keyFile'.exists
              /\ ~created[p] => tmpFile'[p] = tmpFile[p]]_vars

(***************************************************************************)
(* Further claims about the orchestrator, checked under SpecLife and       *)
(* FairLife.                                                               *)
(***************************************************************************)
(***************************************************************************)
(* C17: a task leaves its loop only when it finds the running flag false,  *)
(* it begins no call while the flag is false, and once stop() has cleared  *)
(* the flag every task ends its loop, unless a start() sets the flag       *)
(* again.                                                                  *)
(***************************************************************************)
C17_LoopsEndAfterStop ==
    /\ \A t \in TaskIds :
           (t \in DOMAIN tasks /\ ~running)
               ~> ((t \in DOMAIN tasks /\ tasks[t].pc = "done") \/ running)
    /\ [][\A t \in DOMAIN tasks :
             /\ (tasks[t].pc # "done" /\ tasks'[t].pc = "done") => ~running
             /\ (tasks[t].pc # "calling" /\ tasks'[t].pc = "calling") => running]_vars

\* After a stop() both tasks of a start() have left their loops.
C17_Witness ==
    /\ ~running /\ stops > 0
    /\ tasks # <<>>
    /\ \A t \in DOMAIN tasks : tasks[t].pc = "done"

\* The tasks of a kind that have not left their loop.
LiveTasks(kind) ==
    {t \in DOMAIN tasks : tasks[t].kind = kind /\ tasks[t].pc # "done"}

(***************************************************************************)
(* C18: at any time at most one health-check loop and at most one          *)
(* rebalance loop is live, and a task that a stop() has told to end begins *)
(* no further call.                                                        *)
(***************************************************************************)
C18_OneLoopPerKind ==
    [][/\ \A kind \in {"health", "rebalance"} : Cardinality(LiveTasks(kind)') <= 1
       /\ \A t \in DOMAIN tasks :
              (t <= stopped /\ tasks[t].pc # "calling") => tasks'[t].pc # "calling"]_vars

\* The latest call of c is a stop(), in progress or ended.
WasStop(c) == log[c] # <<>> /\ log[c][1] = "nm.shutdown"

(***************************************************************************)
(* C19: from the first shutdown() call of a stop() on, whether the stop()  *)
(* returns or a shutdown() raises, the running flag is false and no task   *)
(* begins a further call.                                                  *)
(***************************************************************************)
C19_StopClearsFlagFirst ==
    [][\A c \in Callers :
          WasStop(c)' =>
              /\ ~running'
              /\ \A t \in DOMAIN tasks :
                     tasks[t].pc # "calling" => tasks'[t].pc # "calling"]_vars

\* A shutdown() raised out of stop(), and a task has since left its loop.
C19_Witness ==
    \E c \in Callers :
        /\ WasStop(c) /\ opc[c] = "idle" /\ res[c] = "raised"
        /\ ~running
        /\ \E t \in DOMAIN tasks : tasks[t].pc = "done"

====
